---- MODULE Spec2Model ----
(***************************************************************************)
(* uC-MicroLab: the I2C (TWI) bus engine of firmware/i2c/i2c-hal.c and the *)
(* DS3231 real-time-clock driver of firmware/drv/rtc/ds3231.c built on it. *)
(*                                                                         *)
(* The driver is modelled at bus-transaction granularity: every HAL        *)
(* primitive is an operator that appends the bus events it produces        *)
(* (START, address byte, data bytes, STOP) to a trace and lets the         *)
(* addressed device react to them; every driver function is an operator    *)
(* composed of those primitives exactly as the C code composes them, and   *)
(* one action per driver function binds it to the state variables.         *)
(* The read-modify-write functions are also run one bus transaction at a   *)
(* time, so that a second caller and the device can act in between.  The   *)
(* HAL primitives are modelled a second time on the TWI registers (TWCR,   *)
(* TWDR, TWAR), one step per register write and wait, with the TWI         *)
(* hardware as separate actions.                                           *)
(* Bytes are naturals in 0..255; every C expression that is narrowed to    *)
(* uint8_t is reduced modulo 256 where the code narrows it.                *)
(***************************************************************************)
EXTENDS Integers, Sequences, FiniteSets

VARIABLES
    regs,   \* the device's register file, address 0x00..0x12 -> byte
    ptr,    \* the device's register pointer
    rec,    \* the caller's DS3231_Datetime_t object handed to the setters
    got,    \* the caller's DS3231_Datetime_t object DS3231_GetTime fills
    arg,    \* history: the record as it was passed into the last setter
    mode,   \* history: the mode argument of the last alarm setter
    op,     \* history: the driver function that ran last
    prev,   \* history: the driver function that ran before it
    ret,    \* the value returned by the last driver function (0 for void)
    bus,    \* the bus events produced by the last driver function
    pre,    \* history: control and status bytes as they were before the last call
    val,    \* the operand of the BCD codec macros
    ses,    \* history: the control-register calls made since the start
    run,    \* the callers that run a read-modify-write one bus transaction at a time
    twi     \* the TWI peripheral's registers and the HAL primitive running on them

vars == <<regs, ptr, rec, got, arg, mode, op, prev, ret, bus, pre, val, ses, run, twi>>

---------------------------------------------------------------------------
(* ds3231.h: device address, register map, control bits, alarm modes.      *)

DS3231_ADDR == 104
DS3231_REG_SECONDS == 0
DS3231_REG_MINUTES == 1
DS3231_REG_HOURS == 2
DS3231_REG_DAY == 3
DS3231_REG_DATE == 4
DS3231_REG_MONTH == 5
DS3231_REG_YEAR == 6
DS3231_REG_ALM1_SEC == 7
DS3231_REG_ALM1_MIN == 8
DS3231_REG_ALM1_HOUR == 9
DS3231_REG_ALM1_DAY == 10
DS3231_REG_ALM2_MIN == 11
DS3231_REG_ALM2_HOUR == 12
DS3231_REG_ALM2_DAY == 13
DS3231_REG_CONTROL == 14
DS3231_REG_STATUS == 15
DS3231_REG_AGING == 16
DS3231_REG_TEMP_MSB == 17
DS3231_REG_TEMP_LSB == 18

DS3231_CTRL_A1IE == 1
DS3231_CTRL_A2IE == 2

DS3231_ALM1_PER_SEC == 15
DS3231_ALM1_MTC_SECS == 14
DS3231_ALM1_MTC_MIN_SEC == 12
DS3231_ALM1_MTC_HR_MIN_SEC == 8
DS3231_ALM1_MTC_DT_HR_MIN_SEC == 0
DS3231_ALM1_MTC_DY_DT_HR_MIN_SEC == 16

DS3231_ALM2_PER_MIN == 7
DS3231_ALM2_MTC_MIN == 6
DS3231_ALM2_MTC_HR_MIN == 4
DS3231_ALM2_MTC_DT_HR_MIN == 0
DS3231_ALM2_MTC_DY_DT_HR_MIN == 8

DS3231_CTRL_INTCN == 4
DS3231_CTRL_EOSC == 128

DS3231_STAT_A1F == 1
DS3231_STAT_A2F == 2
DS3231_STAT_EN32KHZ == 8
DS3231_STAT_OSF == 128

DS3231_SQW_1HZ == 0
DS3231_SQW_1KHZ == 8
DS3231_SQW_4KHZ == 16
DS3231_SQW_8KHZ == 24

RegAddrs == DS3231_REG_SECONDS..DS3231_REG_TEMP_LSB
Byte == 0..255

---------------------------------------------------------------------------
(* C integer arithmetic on bit patterns.                                   *)

RECURSIVE BitAnd(_, _)
BitAnd(a, b) ==
    IF a = 0 \/ b = 0 THEN 0
    ELSE (a % 2) * (b % 2) + 2 * BitAnd(a \div 2, b \div 2)

RECURSIVE BitOr(_, _)
BitOr(a, b) ==
    IF a = 0 THEN b
    ELSE IF b = 0 THEN a
    ELSE (IF a % 2 = 1 \/ b % 2 = 1 THEN 1 ELSE 0) + 2 * BitOr(a \div 2, b \div 2)

\* (uint8_t) x
U8(x) == x % 256

\* ~m of an int m
BitNot(m) == -1 - m

\* (int16_t) of a 16-bit pattern
I16(x) == IF x % 65536 >= 32768 THEN (x % 65536) - 65536 ELSE x % 65536

---------------------------------------------------------------------------
(* i2c-hal.c on the TWI registers.  TWCR is the set of its bits that are   *)
(* set; a HAL primitive is the sequence of its steps, each step being      *)
(*   ld   : the byte it loads into TWDR first, -1 when it loads none        *)
(*   cr   : the value it writes to TWCR                                     *)
(*   wait : the macro it then spins in, WAIT_TWINT or WAIT_STOP             *)
(*   st   : whether it stores TWDR into the receive buffer after the wait   *)

\* The longest buffer a receive is called with, and the loop iterations
\* followed: one more than any buffer holds.
MaxLen == 2

MaxStore == MaxLen + 1

TwStep(ld, cr, wait, st) == [ld |-> ld, cr |-> cr, wait |-> wait, st |-> st]

\* WAIT_TWINT with a timeout: the loop also ends when the flag is not set
M_WAIT_TWINT(cr) == TRUE

\* while(!(TWCR & (1 << TWINT))) has ended
WAIT_TWINT(cr) == "TWINT" \in cr

\* while(TWCR & (1 << TWSTO)) has ended
WAIT_STOP(cr) == "TWSTO" \notin cr

i2c_controller_start_steps ==
    <<TwStep(-1, {"TWEN", "TWINT", "TWSTA"}, "WAIT_TWINT", FALSE)>>

\* i2c_controller_stop waiting for TWINT, which a STOP never sets
M_i2c_controller_stop_steps ==
    <<TwStep(-1, {"TWEN", "TWINT", "TWSTO"}, "WAIT_TWINT", FALSE)>>

i2c_controller_stop_steps ==
    <<TwStep(-1, {"TWEN", "TWINT", "TWSTO"}, "WAIT_STOP", FALSE)>>

i2c_controller_slaw_steps(addr) ==
    <<TwStep(U8(addr * 2), {"TWEN", "TWINT"}, "WAIT_TWINT", FALSE)>>

\* i2c_controller_slar without | 0x01
M_i2c_controller_slar_steps(addr) ==
    <<TwStep(U8(addr * 2), {"TWEN", "TWINT"}, "WAIT_TWINT", FALSE)>>

i2c_controller_slar_steps(addr) ==
    <<TwStep(U8(BitOr(addr * 2, 1)), {"TWEN", "TWINT"}, "WAIT_TWINT", FALSE)>>

i2c_peripheral_wait_addr_steps ==
    <<TwStep(-1, {"TWEN", "TWEA"}, "WAIT_TWINT", FALSE)>>

\* for (i = 0; i < len; ++i) { TWDR = buf[i]; TWCR = cr; WAIT_TWINT(); }
TxSteps(buf, cr) ==
    [i \in 1..Len(buf) |-> TwStep(buf[i], cr, "WAIT_TWINT", FALSE)]

\* The receive loop acknowledging every byte, the last included
M_RxSteps(len) ==
    [i \in 1..len |-> TwStep(-1, {"TWEN", "TWINT", "TWEA"}, "WAIT_TWINT", TRUE)]

\* len - 1 in the 16-bit unsigned size_t of the target: 65535 for len = 0
RxLoopCount(len) == (len - 1) % 65536

\* for (i = 0; i < len - 1; ++i) { TWCR = TWEN|TWINT|TWEA; WAIT_TWINT();
\* buf[i] = TWDR; }  TWCR = TWEN|TWINT; WAIT_TWINT(); buf[len - 1] = TWDR;
\* The loop is followed for at most MaxStore iterations: a loop that is
\* longer has by then stored outside buf[0..len-1].
RxSteps(len) ==
    [i \in 1..(IF RxLoopCount(len) < MaxStore THEN RxLoopCount(len) ELSE MaxStore) |->
        TwStep(-1, {"TWEN", "TWINT", "TWEA"}, "WAIT_TWINT", TRUE)]
    \o (IF RxLoopCount(len) < MaxStore
        THEN <<TwStep(-1, {"TWEN", "TWINT"}, "WAIT_TWINT", TRUE)>>
        ELSE <<>>)

HAL_I2C_ControllerSend_steps(addr, data) ==
    i2c_controller_start_steps \o i2c_controller_slaw_steps(addr)
        \o TxSteps(<<data>>, {"TWEN", "TWINT"}) \o i2c_controller_stop_steps

HAL_I2C_ControllerTransmit_steps(addr, buf) ==
    i2c_controller_start_steps \o i2c_controller_slaw_steps(addr)
        \o TxSteps(buf, {"TWEN", "TWINT"}) \o i2c_controller_stop_steps

HAL_I2C_ControllerRead_steps(addr) ==
    i2c_controller_start_steps \o i2c_controller_slar_steps(addr)
        \o <<TwStep(-1, {"TWEN", "TWINT"}, "WAIT_TWINT", TRUE)>>
        \o i2c_controller_stop_steps

HAL_I2C_ControllerReceive_steps(addr, len) ==
    i2c_controller_start_steps \o i2c_controller_slar_steps(addr)
        \o RxSteps(len) \o i2c_controller_stop_steps

HAL_I2C_PeripheralSend_steps(data) ==
    i2c_peripheral_wait_addr_steps \o TxSteps(<<data>>, {"TWEN", "TWINT", "TWEA"})

HAL_I2C_PeripheralTransmit_steps(buf) ==
    i2c_peripheral_wait_addr_steps \o TxSteps(buf, {"TWEN", "TWINT", "TWEA"})

HAL_I2C_PeripheralRead_steps ==
    i2c_peripheral_wait_addr_steps
        \o <<TwStep(-1, {"TWEN", "TWINT", "TWEA"}, "WAIT_TWINT", TRUE)>>

HAL_I2C_PeripheralReceive_steps(len) ==
    i2c_peripheral_wait_addr_steps \o RxSteps(len)

\* The TWI peripheral and the primitive running on it:
\*   cr, dr, ar : TWCR (bits set), TWDR, TWAR
\*   br, sr     : TWBR, TWSR (the prescaler bits)
\*   hw         : the bus engine: idle, mstart (START sent), mt, mr
\*                (controller transmitter / receiver), st, sr (addressed
\*                peripheral transmitter / receiver)
\*   fn, a      : the primitive called last and its arguments
\*   prog, ip   : its steps and the step whose wait it is in (0: returned)
\*   rbuf       : the bytes it has stored
\*   n          : the calls made so far
\*   log, mark  : the events on the bus so far and their number when the
\*                call began
\*   sig        : the completions the hardware has signalled since then
\*   addressed  : how an external controller has addressed this device
\*                since then (none, R, W)
\*   loaded     : whether the call has loaded a byte into TWDR
\*   role       : history: the role the last init call established
\*   wr         : history: the register writes <<TWDR or -1, TWCR>> the
\*                call has made
\*   ub         : the call has stored outside buf[0..len-1]: its behaviour
\*                from there on is undefined
\*   drv, todo  : the driver function running on the bus ("none": a
\*                primitive called on its own) and the primitives it has
\*                still to call
\*   k          : the primitives it has called
TwiState(cr, ar) ==
    [cr |-> cr, dr |-> 255, ar |-> ar, br |-> 0, sr |-> 0, hw |-> "idle", fn |-> "none",
     role |-> "none", wr |-> <<>>, ub |-> FALSE, drv |-> "none", todo |-> <<>>, k |-> 0,
     a |-> [addr |-> 0, buf |-> <<>>, len |-> 0], prog |-> <<>>, ip |-> 0,
     rbuf |-> <<>>, n |-> 0, log |-> <<>>, mark |-> 0, sig |-> 0,
     addressed |-> "none", loaded |-> FALSE]

\* The TWI peripheral after reset: every TWCR bit clear.
TwiReset == TwiState({}, 0)

\* TWCR = v: every bit takes the value written, except that TWINT is
\* cleared by writing 1 to it and left as it is by writing 0.
WriteTWCR(cr, v) ==
    (v \ {"TWINT"}) \cup (IF "TWINT" \in v THEN {} ELSE cr \cap {"TWINT"})

\* (a - b) / 2U in 32-bit unsigned arithmetic (16000000U, freq, 16U and 2U
\* are 32 bits wide), for 0 <= a and 0 <= b: a difference below zero wraps
\* to 2^32 - (b - a), whose half is 2^31 - 1 - ((b - a - 1) div 2).
SubHalfU32(a, b) ==
    IF a >= b THEN (a - b) \div 2 ELSE 2147483647 - ((b - a - 1) \div 2)

\* HAL_I2C_SetFrequency without the - 16U of the formula
M_HAL_I2C_SetFrequency(t, freq) ==
    [t EXCEPT !.sr = 0, !.br = U8((16000000 \div freq) \div 2)]

\* TWSR = 0x00; TWBR = (uint8_t)((16000000U / freq - 16U) / 2U);  freq > 0
HAL_I2C_SetFrequency(t, freq) ==
    [t EXCEPT !.sr = 0, !.br = U8(SubHalfU32(16000000 \div freq, 16))]

\* HAL_I2C_SetFrequency(freq); TWCR = (1 << TWEN);
HAL_I2C_InitController(t, freq) ==
    [HAL_I2C_SetFrequency(t, freq) EXCEPT !.cr = WriteTWCR(@, {"TWEN"}),
                                         !.role = "controller"]

\* TWAR = (addr << 1); TWCR = (1 << TWEN) | (1 << TWEA);
HAL_I2C_InitPeripheral(t, addr) ==
    [t EXCEPT !.ar = U8(addr * 2), !.cr = WriteTWCR(@, {"TWEN", "TWEA"}),
              !.role = "peripheral"]

\* HAL_I2C_EndComm setting TWEN (|= instead of &= ~)
M_HAL_I2C_EndComm(t) == [t EXCEPT !.cr = WriteTWCR(@, @ \cup {"TWEN"})]

\* TWCR &= ~(1 << TWEN): TWCR is read and written back with TWEN clear, a
\* TWINT read as 1 is thereby written as 1
HAL_I2C_EndComm(t) == [t EXCEPT !.cr = WriteTWCR(@, @ \ {"TWEN"})]

\* One step up to its wait: [TWDR = ld;] TWCR = cr;
TwExec(t, ins) ==
    [t EXCEPT !.dr = IF ins.ld >= 0 THEN ins.ld ELSE @,
              !.loaded = @ \/ ins.ld >= 0,
              !.cr = WriteTWCR(@, ins.cr),
              !.wr = Append(@, <<ins.ld, ins.cr>>)]

\* The step a primitive goes on with after a wait: leaving out the steps
\* up to the STOP when the device has not acknowledged
M_NextIp(t) ==
    IF t.log # <<>> /\ t.log[Len(t.log)][1] \in {"SLA_NACK", "TX_NACK"}
    THEN Len(t.prog) ELSE t.ip + 1

\* The step a primitive goes on with after a wait: the next statement; no
\* primitive reads TWSR or branches on what the hardware reported
NextIp(t) == t.ip + 1

WaitOver(t) ==
    IF t.prog[t.ip].wait = "WAIT_STOP" THEN WAIT_STOP(t.cr) ELSE WAIT_TWINT(t.cr)

---------------------------------------------------------------------------
(* ds3231.c: the BCD codec macros.                                         *)

TO_BCD(v) == U8(BitOr((v \div 10) * 16, v % 10))

\* TO_BIN with the high nibble weighted 16 instead of 10
M_TO_BIN(v) == U8((v \div 16) * 16 + BitAnd(v, 15))

TO_BIN(v) == U8((v \div 16) * 10 + BitAnd(v, 15))

---------------------------------------------------------------------------
(* The bus as the driver sees it.  A context x is a record                 *)
(*   regs, ptr : the device's register file and register pointer           *)
(*   sel       : the device has acknowledged its address in this transfer  *)
(*   first     : the next byte written to the device is a register pointer *)
(*   bus       : the events put on the wire so far, <<kind, byte>>         *)
(*   buf       : the bytes received by the last read primitive             *)

Ctx(r, p) == [regs |-> r, ptr |-> p, sel |-> FALSE, first |-> FALSE,
              bus |-> <<>>, buf |-> <<>>]

\* The status bits the device sets itself and a write can only clear:
\* writing 0 clears the flag, writing 1 leaves it as it is.
StatusFlags == BitOr(BitOr(DS3231_STAT_A1F, DS3231_STAT_A2F), DS3231_STAT_OSF)

\* The byte register a holds after b is written to it while it held old.
DevStore(a, old, b) ==
    IF a = DS3231_REG_STATUS
    THEN BitOr(BitAnd(b, U8(BitNot(StatusFlags))), BitAnd(BitAnd(b, old), StatusFlags))
    ELSE b

\* The device's reaction to one data byte written to it: the first byte of
\* a write transfer loads the register pointer, every further byte is
\* stored at the pointer, which then advances and wraps after 0x12.
DevWrite(x, b) ==
    IF ~x.sel THEN x
    ELSE IF x.first THEN [x EXCEPT !.ptr = b % (DS3231_REG_TEMP_LSB + 1),
                                   !.first = FALSE]
    ELSE [x EXCEPT !.regs = [x.regs EXCEPT ![x.ptr] = DevStore(x.ptr, @, b)],
                   !.ptr = (x.ptr + 1) % (DS3231_REG_TEMP_LSB + 1)]

\* The byte the device shifts out on a read: the register at the pointer
\* (the released bus reads 0xFF when no device is addressed).
DevByte(x) == IF x.sel THEN x.regs[x.ptr] ELSE 255

DevRead(x) ==
    IF ~x.sel THEN x
    ELSE [x EXCEPT !.ptr = (x.ptr + 1) % (DS3231_REG_TEMP_LSB + 1)]

---------------------------------------------------------------------------
(* i2c-hal.c: the controller primitives.                                   *)

i2c_controller_start(x) == [x EXCEPT !.bus = Append(@, <<"START", 0>>)]

i2c_controller_stop(x) ==
    [x EXCEPT !.bus = Append(@, <<"STOP", 0>>), !.sel = FALSE, !.first = FALSE]

i2c_controller_slaw(x, addr) ==
    [x EXCEPT !.bus = Append(@, <<"SLA", U8(addr * 2)>>),
              !.sel = (U8(addr * 2) \div 2 = DS3231_ADDR),
              !.first = TRUE]

i2c_controller_slar(x, addr) ==
    [x EXCEPT !.bus = Append(@, <<"SLA", BitOr(U8(addr * 2), 1)>>),
              !.sel = (U8(addr * 2) \div 2 = DS3231_ADDR),
              !.first = FALSE]

\* TWDR = b; TWCR = TWEN | TWINT; WAIT_TWINT()
TxByte(x, b) == DevWrite([x EXCEPT !.bus = Append(@, <<"TX", b>>)], b)

\* TWCR = TWEN | TWINT [| TWEA]; WAIT_TWINT(); buf[i] = TWDR
RxByte(x, ack) ==
    DevRead([x EXCEPT !.bus = Append(@, <<IF ack THEN "RX_ACK" ELSE "RX_NACK",
                                            DevByte(x)>>),
                      !.buf = Append(@, DevByte(x))])

HAL_I2C_ControllerSend(x, addr, data) ==
    i2c_controller_stop(TxByte(i2c_controller_slaw(i2c_controller_start(x), addr), data))

RECURSIVE TxLoop(_, _, _)
TxLoop(x, buf, i) ==
    IF i > Len(buf) THEN x ELSE TxLoop(TxByte(x, buf[i]), buf, i + 1)

HAL_I2C_ControllerTransmit(x, addr, buf) ==
    i2c_controller_stop(TxLoop(i2c_controller_slaw(i2c_controller_start(x), addr), buf, 1))

HAL_I2C_ControllerRead(x, addr) ==
    i2c_controller_stop(
        RxByte([i2c_controller_slar(i2c_controller_start(x), addr) EXCEPT !.buf = <<>>],
               FALSE))

RECURSIVE RxLoop(_, _, _)
RxLoop(x, i, len) ==
    IF i < len - 1 THEN RxLoop(RxByte(x, TRUE), i + 1, len) ELSE x

\* len >= 1 (every call site of the driver passes a positive constant)
HAL_I2C_ControllerReceive(x, addr, len) ==
    i2c_controller_stop(
        RxByte(RxLoop([i2c_controller_slar(i2c_controller_start(x), addr)
                          EXCEPT !.buf = <<>>], 0, len),
               FALSE))

---------------------------------------------------------------------------
(* ds3231.c: the driver functions.  Each takes the bus context and, where  *)
(* the C function takes a DS3231_Datetime_t*, the caller's record t, and   *)
(* yields [x |-> context after, t |-> the record after, ret |-> result].   *)

\* line 245: if(time->year >= 2100U) time->month |= 0x80U;
SetTimeCentury(t) ==
    IF t.year >= 2100 THEN [t EXCEPT !.month = U8(BitOr(t.month, 128))] ELSE t

\* line 254: TO_BCD((uint8_t)time->year % 100U); the cast binds tighter than %
SetTimeYearByte(t) == TO_BCD(U8(t.year) % 100)

\* lines 247-254, on the record as line 245 left it
SetTimeBuff(t) ==
    << DS3231_REG_SECONDS,
       TO_BCD(t.sec), TO_BCD(t.min), TO_BCD(t.hour), TO_BCD(t.day),
       TO_BCD(t.date), TO_BCD(t.month), SetTimeYearByte(t) >>

DS3231_SetTime(x, t) ==
    LET t1 == SetTimeCentury(t)
    IN  [x |-> HAL_I2C_ControllerTransmit(x, DS3231_ADDR, SetTimeBuff(t1)),
         t |-> t1, ret |-> 0]

\* GetTimeDecode with the century flag tested on bit 6 instead of bit 7
M_GetTimeDecode(rv) ==
    [sec   |-> TO_BIN(rv[1]),
     min   |-> TO_BIN(rv[2]),
     hour  |-> TO_BIN(rv[3]),
     day   |-> rv[4],
     date  |-> TO_BIN(rv[5]),
     month |-> TO_BIN(rv[6]),
     year  |-> (TO_BIN(rv[7]) + (IF BitAnd(rv[6], 64) # 0 THEN 2100 ELSE 2000)) % 65536]

\* lines 266-275
GetTimeDecode(rv) ==
    [sec   |-> TO_BIN(rv[1]),
     min   |-> TO_BIN(rv[2]),
     hour  |-> TO_BIN(rv[3]),
     day   |-> rv[4],
     date  |-> TO_BIN(rv[5]),
     month |-> TO_BIN(rv[6]),
     year  |-> (TO_BIN(rv[7]) + (IF BitAnd(rv[6], 128) # 0 THEN 2100 ELSE 2000)) % 65536]

DS3231_GetTime(x, t) ==
    LET x1 == HAL_I2C_ControllerSend(x, DS3231_ADDR, DS3231_REG_SECONDS)
        x2 == HAL_I2C_ControllerReceive(x1, DS3231_ADDR, 7)
    IN  [x |-> x2, t |-> GetTimeDecode(x2.buf), ret |-> 0]

\* DS3231_EnableAlarm1 writing the bit alone (= instead of |=)
M_EnableAlarm1(x) ==
    LET x1 == HAL_I2C_ControllerSend(x, DS3231_ADDR, DS3231_REG_CONTROL)
        x2 == HAL_I2C_ControllerRead(x1, DS3231_ADDR)
    IN  HAL_I2C_ControllerTransmit(x2, DS3231_ADDR,
                                   <<DS3231_REG_CONTROL, DS3231_CTRL_A1IE>>)

\* The read-modify-write of one register that every enable/disable
\* function performs: pointer write, one-byte read, write-back of f(value).
DS3231_EnableAlarm1(x) ==
    LET x1 == HAL_I2C_ControllerSend(x, DS3231_ADDR, DS3231_REG_CONTROL)
        x2 == HAL_I2C_ControllerRead(x1, DS3231_ADDR)
        reg_ctrl == BitOr(x2.buf[1], DS3231_CTRL_A1IE)
    IN  HAL_I2C_ControllerTransmit(x2, DS3231_ADDR, <<DS3231_REG_CONTROL, reg_ctrl>>)

DS3231_EnableAlarm2(x) ==
    LET x1 == HAL_I2C_ControllerSend(x, DS3231_ADDR, DS3231_REG_CONTROL)
        x2 == HAL_I2C_ControllerRead(x1, DS3231_ADDR)
        reg_ctrl == BitOr(x2.buf[1], DS3231_CTRL_A2IE)
    IN  HAL_I2C_ControllerTransmit(x2, DS3231_ADDR, <<DS3231_REG_CONTROL, reg_ctrl>>)

\* The two halves of the read-modify-write: pointer write and one-byte
\* read; write-back of {reg, v}.
RmwFetch(x, reg) ==
    HAL_I2C_ControllerRead(HAL_I2C_ControllerSend(x, DS3231_ADDR, reg), DS3231_ADDR)

RmwStore(x, reg, v) == HAL_I2C_ControllerTransmit(x, DS3231_ADDR, <<reg, v>>)

\* The statement between the read and the write-back of each function,
\* on the byte v that was read.
DisableAlarm1Value(v) == BitAnd(v, DS3231_CTRL_A1IE)

EnableAlarm1Value(v) == BitOr(v, DS3231_CTRL_A1IE)

DisableAlarm2Value(v) == BitAnd(v, U8(BitNot(DS3231_CTRL_A2IE)))

\* DS3231_EnableAlarm2 writing the bit alone (= instead of |=)
M_EnableAlarm2Value(v) == DS3231_CTRL_A2IE

EnableAlarm2Value(v) == BitOr(v, DS3231_CTRL_A2IE)

\* DS3231_SetSQWFreq without the mask of the two rate-select bits
M_SetSQWFreqValue(v, freq) == BitOr(v, freq)

SetSQWFreqValue(v, freq) == BitOr(BitAnd(v, 231), freq)

EnableSQWValue(v) == BitOr(v, DS3231_CTRL_INTCN)

DisableSQWValue(v) == BitAnd(v, U8(BitNot(DS3231_CTRL_INTCN)))

Enable32khzValue(v) == BitOr(v, DS3231_STAT_EN32KHZ)

Disable32khzValue(v) == BitAnd(v, U8(BitNot(DS3231_STAT_EN32KHZ)))

\* DS3231_EnableOSC setting the bit (|= instead of &= ~)
M_EnableOSCValue(v) == BitOr(v, DS3231_CTRL_EOSC)

EnableOSCValue(v) == BitAnd(v, U8(BitNot(DS3231_CTRL_EOSC)))

DS3231_DisableAlarm1(x) ==
    LET x2 == RmwFetch(x, DS3231_REG_CONTROL)
    IN  RmwStore(x2, DS3231_REG_CONTROL, DisableAlarm1Value(x2.buf[1]))

DS3231_DisableAlarm2(x) ==
    LET x2 == RmwFetch(x, DS3231_REG_CONTROL)
    IN  RmwStore(x2, DS3231_REG_CONTROL, DisableAlarm2Value(x2.buf[1]))

DS3231_SetSQWFreq(x, freq) ==
    LET x2 == RmwFetch(x, DS3231_REG_CONTROL)
    IN  RmwStore(x2, DS3231_REG_CONTROL, SetSQWFreqValue(x2.buf[1], freq))

DS3231_EnableSQW(x) ==
    LET x2 == RmwFetch(x, DS3231_REG_CONTROL)
    IN  RmwStore(x2, DS3231_REG_CONTROL, EnableSQWValue(x2.buf[1]))

DS3231_DisableSQW(x) ==
    LET x2 == RmwFetch(x, DS3231_REG_CONTROL)
    IN  RmwStore(x2, DS3231_REG_CONTROL, DisableSQWValue(x2.buf[1]))

DS3231_EnableOSC(x) ==
    LET x2 == RmwFetch(x, DS3231_REG_CONTROL)
    IN  RmwStore(x2, DS3231_REG_CONTROL, EnableOSCValue(x2.buf[1]))

\* line 235: reg_ctrl &= ~DS3231_CTRL_EOSC
InitValue(v) == BitAnd(v, U8(BitNot(DS3231_CTRL_EOSC)))

\* DS3231_Init on the bus context x and the TWI registers t.  The trace
\* records the bus configuration as the event <<"INIT", TWBR>>.
DS3231_Init(x, t) ==
    LET t1 == HAL_I2C_InitController(t, 400000)
        x2 == RmwFetch([x EXCEPT !.bus = Append(@, <<"INIT", t1.br>>)],
                       DS3231_REG_CONTROL)
    IN  [x |-> RmwStore(x2, DS3231_REG_CONTROL, InitValue(x2.buf[1])),
         twi |-> t1, ret |-> 0]

\* lines 282-288: the initializer of buff[1..4]; the day/date byte is
\* taken from time->day
Alarm1Init(t) == << TO_BCD(t.sec), TO_BCD(t.min), TO_BCD(t.hour), TO_BCD(t.day) >>

\* Alarm1Mask with the hours byte left unmasked in the MTC_MIN_SEC case
M_Alarm1Mask(b, m) ==
    CASE m = DS3231_ALM1_PER_SEC -> << 128, 128, 128, 128 >>
      [] m = DS3231_ALM1_MTC_SECS ->
            << b[1], BitOr(b[2], 128), BitOr(b[3], 128), BitOr(b[4], 128) >>
      [] m = DS3231_ALM1_MTC_MIN_SEC ->
            << b[1], b[2], b[3], BitOr(b[4], 128) >>
      [] m = DS3231_ALM1_MTC_HR_MIN_SEC ->
            << b[1], b[2], b[3], BitOr(b[4], 128) >>
      [] m = DS3231_ALM1_MTC_DT_HR_MIN_SEC -> b
      [] m = DS3231_ALM1_MTC_DY_DT_HR_MIN_SEC ->
            << b[1], b[2], b[3], BitOr(b[4], 64) >>
      [] OTHER -> b

\* lines 290-317: the switch on mode, applied to buff[1..4]
Alarm1Mask(b, m) ==
    CASE m = DS3231_ALM1_PER_SEC -> << 128, 128, 128, 128 >>
      [] m = DS3231_ALM1_MTC_SECS ->
            << b[1], BitOr(b[2], 128), BitOr(b[3], 128), BitOr(b[4], 128) >>
      [] m = DS3231_ALM1_MTC_MIN_SEC ->
            << b[1], b[2], BitOr(b[3], 128), BitOr(b[4], 128) >>
      [] m = DS3231_ALM1_MTC_HR_MIN_SEC ->
            << b[1], b[2], b[3], BitOr(b[4], 128) >>
      [] m = DS3231_ALM1_MTC_DT_HR_MIN_SEC -> b
      [] m = DS3231_ALM1_MTC_DY_DT_HR_MIN_SEC ->
            << b[1], b[2], b[3], BitOr(b[4], 64) >>
      [] OTHER -> b

\* DS3231_SetAlarm1 writing the alarm block before it enables the interrupt
M_SetAlarm1(x, t, m) ==
    LET buff == <<DS3231_REG_ALM1_SEC>> \o Alarm1Mask(Alarm1Init(t), m)
        x1 == HAL_I2C_ControllerTransmit(x, DS3231_ADDR, buff)
    IN  [x |-> DS3231_EnableAlarm1(x1), t |-> t, ret |-> 0]

DS3231_SetAlarm1(x, t, m) ==
    LET x1 == DS3231_EnableAlarm1(x)
        buff == <<DS3231_REG_ALM1_SEC>> \o Alarm1Mask(Alarm1Init(t), m)
    IN  [x |-> HAL_I2C_ControllerTransmit(x1, DS3231_ADDR, buff), t |-> t, ret |-> 0]

\* lines 346-351
Alarm2Init(t) == << TO_BCD(t.min), TO_BCD(t.hour), TO_BCD(t.day) >>

\* Alarm2Mask with the day-select bit 6 left out of the DY_DT case
M_Alarm2Mask(b, m) ==
    CASE m = DS3231_ALM2_PER_MIN -> << 128, 128, 128 >>
      [] m = DS3231_ALM2_MTC_MIN -> << b[1], BitOr(b[2], 128), BitOr(b[3], 128) >>
      [] m = DS3231_ALM2_MTC_HR_MIN -> << b[1], b[2], BitOr(b[3], 128) >>
      [] m = DS3231_ALM2_MTC_DT_HR_MIN -> b
      [] m = DS3231_ALM2_MTC_DY_DT_HR_MIN -> b
      [] OTHER -> b

\* lines 353-374
Alarm2Mask(b, m) ==
    CASE m = DS3231_ALM2_PER_MIN -> << 128, 128, 128 >>
      [] m = DS3231_ALM2_MTC_MIN -> << b[1], BitOr(b[2], 128), BitOr(b[3], 128) >>
      [] m = DS3231_ALM2_MTC_HR_MIN -> << b[1], b[2], BitOr(b[3], 128) >>
      [] m = DS3231_ALM2_MTC_DT_HR_MIN -> b
      [] m = DS3231_ALM2_MTC_DY_DT_HR_MIN -> << b[1], b[2], BitOr(b[3], 64) >>
      [] OTHER -> b

DS3231_SetAlarm2(x, t, m) ==
    LET x1 == DS3231_EnableAlarm2(x)
        buff == <<DS3231_REG_ALM2_MIN>> \o Alarm2Mask(Alarm2Init(t), m)
    IN  [x |-> HAL_I2C_ControllerTransmit(x1, DS3231_ADDR, buff), t |-> t, ret |-> 0]

\* line 407: (int16_t)(((uint16_t)temp_bytes[0] << 2U) | (temp_bytes[1] >> 6U))
TempRaw(msb, lsb) == I16(BitOr((msb * 4) % 65536, lsb \div 64))

\* TempSignExtend with the sign extension left out
M_TempSignExtend(raw) == raw

\* line 409: if(raw_temp & 0x0200) raw_temp |= (int16_t) 0xFC00;
TempSignExtend(raw) ==
    IF BitAnd(raw % 65536, 512) # 0 THEN I16(BitOr(raw % 65536, 64512)) ELSE raw

\* line 411: (float) raw_temp * 0.25f.  The result is kept in hundredths of
\* a degree: one count is 0.25 degree = 25 hundredths, and every product is
\* exactly representable in binary floating point.
TempScale(raw) == raw * 25

DS3231_GetTemp(x) ==
    LET x1 == HAL_I2C_ControllerSend(x, DS3231_ADDR, DS3231_REG_TEMP_MSB)
        x2 == HAL_I2C_ControllerReceive(x1, DS3231_ADDR, 2)
    IN  [x |-> x2, t |-> <<>>,
         ret |-> TempScale(TempSignExtend(TempRaw(x2.buf[1], x2.buf[2])))]

---------------------------------------------------------------------------
(* State machine: one action per driver function.  The caller owns two     *)
(* record objects: rec, which it fills once and passes to the setters, and *)
(* got, which it passes to DS3231_GetTime.                                 *)

ZeroRec == [sec |-> 0, min |-> 0, hour |-> 0, day |-> 0, date |-> 0,
            month |-> 0, year |-> 0]

\* The usage example of ds3231.h: {0, 30, 14, 4, 26, 2, 2026}
ExampleRec == [sec |-> 0, min |-> 30, hour |-> 14, day |-> 4, date |-> 26,
               month |-> 2, year |-> 2026]

\* The register file the models start from: 00:00:00, day 1, 01/01/00,
\* everything else zero.  Each specification overwrites the registers its
\* claims range over.
DeviceReset ==
    [a \in RegAddrs |->
        IF a \in {DS3231_REG_DAY, DS3231_REG_DATE, DS3231_REG_MONTH} THEN 1 ELSE 0]

\* What a call leaves behind: o is the driver function's result
\* [x, ret], t the caller's setter record and g its getter record after it,
\* a the record that went into a setter.
Returned(name, o, t, g, a, m) ==
    /\ regs' = o.x.regs
    /\ ptr' = o.x.ptr
    /\ bus' = o.x.bus
    /\ ret' = o.ret
    /\ rec' = t
    /\ got' = g
    /\ arg' = a
    /\ mode' = m
    /\ op' = name
    /\ prev' = op
    /\ pre' = [ctrl |-> regs[DS3231_REG_CONTROL], stat |-> regs[DS3231_REG_STATUS]]
    /\ UNCHANGED val

\* The number of calls a bounded sequence of calls is made of.
MaxCalls == 2

\* No caller is inside a read-modify-write.  c[p] is caller p's position
\* (idle, sent, read, done), the function it runs and the byte it has read;
\* raised is the history of the alarm flags the device has raised, mixed
\* whether a transaction of one caller fell inside a call of the other.
RunStart(flags) ==
    [c |-> [p \in {1, 2} |-> [pc |-> "idle", fn |-> "none", loc |-> 0]],
     raised |-> flags, mixed |-> FALSE]

\* Before the first call: device registers r, the caller's record t, the
\* codec operand v.
StartDriver(r, t, v) ==
    /\ regs = r
    /\ ptr = 0
    /\ rec = t
    /\ got = ZeroRec
    /\ arg = ZeroRec
    /\ mode = 0
    /\ op = "none"
    /\ prev = "none"
    /\ ret = 0
    /\ bus = <<>>
    /\ pre = [ctrl |-> r[DS3231_REG_CONTROL], stat |-> r[DS3231_REG_STATUS]]
    /\ val = v
    /\ ses = [n |-> 0, c0 |-> r[DS3231_REG_CONTROL], named |-> 0, pure |-> TRUE]
    /\ run = RunStart(BitAnd(r[DS3231_REG_STATUS],
                             BitOr(DS3231_STAT_A1F, DS3231_STAT_A2F)))

StartState(r, t, v) == StartDriver(r, t, v) /\ twi = TwiReset

SetTime ==
    \E o \in {DS3231_SetTime(Ctx(regs, ptr), rec)} :
        Returned("SetTime", o, o.t, got, rec, mode)

GetTime ==
    \E o \in {DS3231_GetTime(Ctx(regs, ptr), got)} :
        Returned("GetTime", o, rec, o.t, arg, mode)

SetAlarm1(m) ==
    \E o \in {DS3231_SetAlarm1(Ctx(regs, ptr), rec, m)} :
        Returned("SetAlarm1", o, o.t, got, rec, m)

SetAlarm2(m) ==
    \E o \in {DS3231_SetAlarm2(Ctx(regs, ptr), rec, m)} :
        Returned("SetAlarm2", o, o.t, got, rec, m)

EnableAlarm1 ==
    \E o \in {[x |-> DS3231_EnableAlarm1(Ctx(regs, ptr)), ret |-> 0]} :
        Returned("EnableAlarm1", o, rec, got, arg, mode)

EnableAlarm2 ==
    \E o \in {[x |-> DS3231_EnableAlarm2(Ctx(regs, ptr)), ret |-> 0]} :
        Returned("EnableAlarm2", o, rec, got, arg, mode)

DisableAlarm1 ==
    \E o \in {[x |-> DS3231_DisableAlarm1(Ctx(regs, ptr)), ret |-> 0]} :
        Returned("DisableAlarm1", o, rec, got, arg, mode)

DisableAlarm2 ==
    \E o \in {[x |-> DS3231_DisableAlarm2(Ctx(regs, ptr)), ret |-> 0]} :
        Returned("DisableAlarm2", o, rec, got, arg, mode)

SetSQWFreq(freq) ==
    \E o \in {[x |-> DS3231_SetSQWFreq(Ctx(regs, ptr), freq), ret |-> 0]} :
        Returned("SetSQWFreq", o, rec, got, arg, freq)

EnableSQW ==
    \E o \in {[x |-> DS3231_EnableSQW(Ctx(regs, ptr)), ret |-> 0]} :
        Returned("EnableSQW", o, rec, got, arg, mode)

DisableSQW ==
    \E o \in {[x |-> DS3231_DisableSQW(Ctx(regs, ptr)), ret |-> 0]} :
        Returned("DisableSQW", o, rec, got, arg, mode)

EnableOSC ==
    \E o \in {[x |-> DS3231_EnableOSC(Ctx(regs, ptr)), ret |-> 0]} :
        Returned("EnableOSC", o, rec, got, arg, mode)

InitDevice ==
    \E o \in {DS3231_Init(Ctx(regs, ptr), twi)} :
        Returned("Init", o, rec, got, arg, mode) /\ twi' = o.twi

\* HAL_I2C_SetFrequency(freq); val keeps the requested rate.
SetFrequency(freq) ==
    /\ twi' = HAL_I2C_SetFrequency(twi, freq)
    /\ val' = freq
    /\ op' = "SetFrequency"
    /\ prev' = op
    /\ UNCHANGED <<regs, ptr, rec, got, arg, mode, ret, bus, pre>>

GetTemp ==
    \E o \in {DS3231_GetTemp(Ctx(regs, ptr))} :
        Returned("GetTemp", o, rec, got, arg, mode)

\* The read-modify-write functions one bus transaction at a time, run by
\* caller p: pointer write, one-byte read into the local variable,
\* write-back.  Between two transactions the other caller and the device
\* may act.
RmwReg(fn) ==
    IF fn \in {"Enable32khz", "Disable32khz"} THEN DS3231_REG_STATUS
    ELSE DS3231_REG_CONTROL

RmwValue(fn, v) ==
    CASE fn = "DisableAlarm1" -> DisableAlarm1Value(v)
      [] fn = "EnableAlarm1" -> EnableAlarm1Value(v)
      [] fn = "DisableAlarm2" -> DisableAlarm2Value(v)
      [] fn = "EnableAlarm2" -> EnableAlarm2Value(v)
      [] fn = "EnableSQW" -> EnableSQWValue(v)
      [] fn = "DisableSQW" -> DisableSQWValue(v)
      [] fn = "Enable32khz" -> Enable32khzValue(v)
      [] fn = "Disable32khz" -> Disable32khzValue(v)
      [] fn = "EnableOSC" -> EnableOSCValue(v)

Transacted(p, x, c) ==
    /\ regs' = x.regs
    /\ ptr' = x.ptr
    /\ bus' = x.bus
    /\ run' = [run EXCEPT !.c[p] = c,
                          !.mixed = @ \/ run.c[3 - p].pc \in {"sent", "read"}]
    /\ UNCHANGED <<rec, got, arg, mode, op, prev, ret, pre, val, ses, twi>>

RmwSend(p, fn) ==
    /\ run.c[p].pc \in {"idle", "done"}
    /\ \E x \in {HAL_I2C_ControllerSend(Ctx(regs, ptr), DS3231_ADDR, RmwReg(fn))} :
           Transacted(p, x, [pc |-> "sent", fn |-> fn, loc |-> 0])

RmwRead(p) ==
    /\ run.c[p].pc = "sent"
    /\ \E x \in {HAL_I2C_ControllerRead(Ctx(regs, ptr), DS3231_ADDR)} :
           Transacted(p, x, [run.c[p] EXCEPT !.pc = "read", !.loc = x.buf[1]])

RmwWrite(p) ==
    /\ run.c[p].pc = "read"
    /\ \E x \in {RmwStore(Ctx(regs, ptr), RmwReg(run.c[p].fn),
                           RmwValue(run.c[p].fn, run.c[p].loc))} :
           Transacted(p, x, [run.c[p] EXCEPT !.pc = "done"])

\* The device raises alarm flag f (an alarm matches the time).
RaiseFlag(f) ==
    /\ BitAnd(regs[DS3231_REG_STATUS], f) = 0
    /\ regs' = [regs EXCEPT ![DS3231_REG_STATUS] = BitOr(@, f)]
    /\ run' = [run EXCEPT !.raised = BitOr(@, f)]
    /\ UNCHANGED <<ptr, rec, got, arg, mode, op, prev, ret, bus, pre, val, ses, twi>>

\* A HAL primitive on the TWI registers, one step at a time.  TwiCall
\* enters primitive fn with arguments a and runs it up to its first wait;
\* TwiStep leaves the wait the primitive is in once its condition holds,
\* stores TWDR if the step says so, and runs on to the next wait or returns.
TwiDone(t) == twi' = t /\ UNCHANGED <<regs, ptr, rec, got, arg, mode, op, prev, ret, bus,
                                      pre, val, ses, run>>

\* The entry of a primitive up to its first wait.
TwiEnter(t, fn, a, prog) ==
    TwExec([t EXCEPT !.fn = fn, !.a = a, !.prog = prog, !.ip = 1,
                     !.rbuf = <<>>, !.mark = Len(t.log),
                     !.sig = 0, !.addressed = "none", !.loaded = FALSE,
                     !.wr = <<>>, !.ub = FALSE],
           prog[1])

\* A primitive called on its own, while no driver function is running.
TwiCall(fn, a, prog) ==
    /\ twi.ip = 0
    /\ twi.todo = <<>>
    /\ twi.n < MaxCalls
    /\ TwiDone([TwiEnter(twi, fn, a, prog) EXCEPT !.n = @ + 1, !.drv = "none", !.k = 0])

\* DS3231_EnableAlarm1 on the TWI registers: the function is entered with
\* its three primitive calls ahead.
EnableAlarm1Enter ==
    /\ twi.ip = 0
    /\ twi.todo = <<>>
    /\ twi.n < MaxCalls
    /\ TwiDone([twi EXCEPT !.drv = "EnableAlarm1", !.k = 0, !.n = @ + 1,
                           !.todo = <<"ControllerSend", "ControllerRead",
                                      "ControllerTransmit">>])

\* The arguments of its next call; reg_ctrl is the byte the read returned.
EnableAlarm1Args(t) ==
    CASE Head(t.todo) = "ControllerSend" ->
             [addr |-> DS3231_ADDR, buf |-> <<DS3231_REG_CONTROL>>, len |-> 1]
      [] Head(t.todo) = "ControllerRead" ->
             [addr |-> DS3231_ADDR, buf |-> <<>>, len |-> 1]
      [] Head(t.todo) = "ControllerTransmit" ->
             [addr |-> DS3231_ADDR,
              buf |-> <<DS3231_REG_CONTROL, BitOr(t.rbuf[1], DS3231_CTRL_A1IE)>>,
              len |-> 2]

EnableAlarm1Steps(t) ==
    CASE Head(t.todo) = "ControllerSend" ->
             HAL_I2C_ControllerSend_steps(DS3231_ADDR, DS3231_REG_CONTROL)
      [] Head(t.todo) = "ControllerRead" -> HAL_I2C_ControllerRead_steps(DS3231_ADDR)
      [] Head(t.todo) = "ControllerTransmit" ->
             HAL_I2C_ControllerTransmit_steps(DS3231_ADDR, EnableAlarm1Args(t).buf)

\* The driver function calls its next primitive once the previous one has
\* returned.
EnableAlarm1Next ==
    /\ twi.ip = 0
    /\ twi.todo # <<>>
    /\ TwiDone([TwiEnter(twi, Head(twi.todo), EnableAlarm1Args(twi),
                         EnableAlarm1Steps(twi))
                    EXCEPT !.todo = Tail(@), !.k = @ + 1])

TwiStep ==
    /\ twi.ip >= 1
    /\ WaitOver(twi)
    /\ \E t \in {[twi EXCEPT !.rbuf = IF twi.prog[twi.ip].st THEN Append(@, twi.dr)
                                      ELSE @,
                               !.ub = @ \/ (twi.prog[twi.ip].st
                                            /\ Len(twi.rbuf) >= twi.a.len)]} :
           IF twi.ip = Len(twi.prog)
           THEN TwiDone([t EXCEPT !.ip = 0])
           ELSE TwiDone(TwExec([t EXCEPT !.ip = NextIp(twi)], t.prog[NextIp(twi)]))

\* The calls that are not transfers, made while no primitive is running.
InitController(freq) ==
    /\ twi.ip = 0
    /\ twi.n < MaxCalls
    /\ TwiDone([HAL_I2C_InitController(twi, freq) EXCEPT !.fn = "InitController",
                                                         !.n = @ + 1])

InitPeripheral(addr) ==
    /\ twi.ip = 0
    /\ twi.n < MaxCalls
    /\ TwiDone([HAL_I2C_InitPeripheral(twi, addr) EXCEPT !.fn = "InitPeripheral",
                                                         !.n = @ + 1])

\* HAL_I2C_EndComm; with TWEN clear the bus engine is switched off.
EndComm ==
    /\ twi.ip = 0
    /\ twi.n < MaxCalls
    /\ TwiDone([HAL_I2C_EndComm(twi) EXCEPT !.fn = "EndComm", !.hw = "idle",
                                            !.n = @ + 1])

\* After a store outside the caller's buffer the call may, instead of
\* going on as compiled, end at any point.
TwiFault ==
    /\ twi.ip >= 1
    /\ twi.ub
    /\ TwiDone([twi EXCEPT !.ip = 0])

\* The TWI hardware.  It acts on the bus while TWEN is set and TWINT is
\* clear, and signals the completion of what it did by setting TWINT
\* (after a STOP: by clearing TWSTO).
HwReady == "TWEN" \in twi.cr /\ "TWINT" \notin twi.cr

HwSignal(kind, b, hw) ==
    [twi EXCEPT !.log = Append(@, <<kind, b>>), !.hw = hw, !.sig = @ + 1,
                !.cr = @ \cup {"TWINT"}]

HwStart ==
    /\ HwReady /\ "TWSTA" \in twi.cr
    /\ TwiDone(HwSignal("START", 0, "mstart"))

HwAddress ==
    /\ HwReady /\ twi.cr \cap {"TWSTA", "TWSTO"} = {} /\ twi.hw = "mstart"
    /\ TwiDone(HwSignal("SLA", twi.dr, IF twi.dr % 2 = 0 THEN "mt" ELSE "mr"))

HwTransmit ==
    /\ HwReady /\ twi.cr \cap {"TWSTA", "TWSTO"} = {} /\ twi.hw = "mt"
    /\ TwiDone(HwSignal("TX", twi.dr, "mt"))

\* The addressed device does not acknowledge (or no device answers): the
\* hardware reports it in TWSR and signals completion all the same.
HwAddressNack ==
    /\ HwReady /\ twi.cr \cap {"TWSTA", "TWSTO"} = {} /\ twi.hw = "mstart"
    /\ TwiDone(HwSignal("SLA_NACK", twi.dr, IF twi.dr % 2 = 0 THEN "mt" ELSE "mr"))

HwTransmitNack ==
    /\ HwReady /\ twi.cr \cap {"TWSTA", "TWSTO"} = {} /\ twi.hw = "mt"
    /\ TwiDone(HwSignal("TX_NACK", twi.dr, "mt"))

HwReceive(b) ==
    /\ HwReady /\ twi.cr \cap {"TWSTA", "TWSTO"} = {} /\ twi.hw = "mr"
    /\ TwiDone([HwSignal(IF "TWEA" \in twi.cr THEN "RX_ACK" ELSE "RX_NACK", b, "mr")
                    EXCEPT !.dr = b])

HwStop ==
    /\ HwReady /\ "TWSTO" \in twi.cr
    /\ TwiDone([twi EXCEPT !.log = Append(@, <<"STOP", 0>>), !.hw = "idle",
                           !.sig = @ + 1, !.cr = @ \ {"TWSTO"}])

\* An external controller addresses this device: START, own address, and
\* the direction bit (1: it reads from this device, SLA+R).
HwAddressed(dir) ==
    /\ HwReady /\ "TWEA" \in twi.cr /\ twi.hw = "idle"
    /\ TwiDone([HwSignal("OWN_SLA", twi.ar + dir, IF dir = 1 THEN "st" ELSE "sr")
                    EXCEPT !.addressed = IF dir = 1 THEN "R" ELSE "W"])

\* Addressed as transmitter: TWDR is shifted out to the controller.
HwPeripheralTransmit ==
    /\ HwReady /\ twi.hw = "st"
    /\ TwiDone(HwSignal("PTX", twi.dr, "st"))

\* Addressed as receiver: a byte arrives and is acknowledged when TWEA is
\* set; after a non-acknowledge the device is no longer addressed.
HwPeripheralReceive(b) ==
    /\ HwReady /\ twi.hw = "sr"
    /\ TwiDone([HwSignal(IF "TWEA" \in twi.cr THEN "PRX_ACK" ELSE "PRX_NACK", b,
                         IF "TWEA" \in twi.cr THEN "sr" ELSE "idle")
                    EXCEPT !.dr = b])

\* The codec macros applied on their own: ret = TO_BCD(val), then
\* ret = TO_BIN(ret).
Encode ==
    /\ op = "none"
    /\ ret' = TO_BCD(val)
    /\ op' = "TO_BCD"
    /\ prev' = op
    /\ UNCHANGED <<regs, ptr, rec, got, arg, mode, bus, pre, val>>

Decode ==
    /\ op = "TO_BCD"
    /\ ret' = TO_BIN(ret)
    /\ op' = "TO_BIN"
    /\ prev' = op
    /\ UNCHANGED <<regs, ptr, rec, got, arg, mode, bus, pre, val>>

---------------------------------------------------------------------------
(* Specifications.                                                         *)

\* BCD as arithmetic on decimal digits (the device's register format).
Bcd(n) == ((n \div 10) * 16) + (n % 10)
BcdBytes == { (16 * h) + l : h \in 0..9, l \in 0..9 }
Bit(b, i) == (b \div (2 ^ i)) % 2

\* Timekeeping.  The caller's record ranges over every year 2000..2199 and
\* every month, the other fields over their extremes and the header's
\* example values; or the device holds any valid month/century and year
\* register and the caller's record is the header's example.
TimeRecords ==
    { [sec |-> f[1], min |-> f[2], hour |-> f[3], day |-> f[4], date |-> f[5],
       month |-> m, year |-> y] :
        f \in {<<0, 30, 14, 4, 26>>, <<59, 59, 23, 7, 31>>, <<0, 0, 0, 1, 1>>},
        m \in 1..12, y \in 2000..2199 }

InitTime ==
    \/ \E t \in TimeRecords : StartState(DeviceReset, t, 0)
    \/ \E mb \in { Bcd(m) + c : m \in 1..12, c \in {0, 128} }, yb \in BcdBytes :
          StartState([DeviceReset EXCEPT ![DS3231_REG_MONTH] = mb,
                                         ![DS3231_REG_YEAR] = yb], ExampleRec, 0)

NextTime ==
    /\ SetTime \/ GetTime
    /\ UNCHANGED <<ses, run, twi>>

SpecTime == InitTime /\ [][NextTime]_vars

\* Alarms: both setters on every mode, with descriptors whose day-of-week
\* and day-of-month differ.
Alarm1Modes ==
    {DS3231_ALM1_PER_SEC, DS3231_ALM1_MTC_SECS, DS3231_ALM1_MTC_MIN_SEC,
     DS3231_ALM1_MTC_HR_MIN_SEC, DS3231_ALM1_MTC_DT_HR_MIN_SEC,
     DS3231_ALM1_MTC_DY_DT_HR_MIN_SEC}

Alarm2Modes ==
    {DS3231_ALM2_PER_MIN, DS3231_ALM2_MTC_MIN, DS3231_ALM2_MTC_HR_MIN,
     DS3231_ALM2_MTC_DT_HR_MIN, DS3231_ALM2_MTC_DY_DT_HR_MIN}

AlarmRecords ==
    [sec : {0, 59}, min : {0, 59}, hour : {7, 23}, day : {1, 3, 7},
     date : {1, 15, 31}, month : {2}, year : {2026}]

InitAlarm ==
    \E t \in AlarmRecords, c \in {28, 224} :
        StartState([DeviceReset EXCEPT ![DS3231_REG_CONTROL] = c], t, 0)

NextAlarm ==
    /\ \/ \E m \in Alarm1Modes : SetAlarm1(m)
       \/ \E m \in Alarm2Modes : SetAlarm2(m)
    /\ UNCHANGED <<ses, run, twi>>

SpecAlarm == InitAlarm /\ [][NextAlarm]_vars

\* Control register: sequences of up to MaxCalls read-modify-write
\* functions from every prior value.
SQWFreqs == {DS3231_SQW_1HZ, DS3231_SQW_1KHZ, DS3231_SQW_4KHZ, DS3231_SQW_8KHZ}

\* The control bits a function's documentation names as its effect.
NamedBits(name) ==
    CASE name \in {"EnableAlarm1", "DisableAlarm1"} -> DS3231_CTRL_A1IE
      [] name \in {"EnableAlarm2", "DisableAlarm2"} -> DS3231_CTRL_A2IE
      [] name \in {"EnableSQW", "DisableSQW"} -> DS3231_CTRL_INTCN
      [] name = "EnableOSC" -> DS3231_CTRL_EOSC
      [] name = "SetSQWFreq" -> DS3231_SQW_8KHZ

SingleBitCalls == {"EnableAlarm2", "DisableAlarm2", "EnableSQW", "DisableSQW",
                   "EnableOSC"}

Tally(s, name) ==
    [n |-> s.n + 1, c0 |-> s.c0, named |-> BitOr(s.named, NamedBits(name)),
     pure |-> s.pure /\ name \in SingleBitCalls]

InitCtrl ==
    \E c \in Byte :
        StartState([DeviceReset EXCEPT ![DS3231_REG_CONTROL] = c], ExampleRec, 0)

NextCtrl ==
    /\ ses.n < MaxCalls
    /\ \/ EnableAlarm1
       \/ DisableAlarm1
       \/ EnableAlarm2
       \/ DisableAlarm2
       \/ EnableSQW
       \/ DisableSQW
       \/ EnableOSC
       \/ \E f \in SQWFreqs : SetSQWFreq(f)
    /\ ses' = Tally(ses, op')
    /\ UNCHANGED <<run, twi>>

SpecCtrl == InitCtrl /\ [][NextCtrl]_vars

\* Status register: one caller runs DS3231_Enable32khz and
\* DS3231_Disable32khz one bus transaction at a time while the device
\* raises its alarm flags.
InitStatus ==
    \E st \in {0, DS3231_STAT_A1F, DS3231_STAT_EN32KHZ,
                BitOr(DS3231_STAT_OSF, DS3231_STAT_A2F)} :
        StartState([DeviceReset EXCEPT ![DS3231_REG_STATUS] = st], ExampleRec, 0)

NextStatus ==
    \/ \E fn \in {"Enable32khz", "Disable32khz"} : RmwSend(1, fn)
    \/ RmwRead(1)
    \/ RmwWrite(1)
    \/ \E f \in {DS3231_STAT_A1F, DS3231_STAT_A2F} : RaiseFlag(f)

SpecStatus == InitStatus /\ [][NextStatus]_vars

\* Two logical callers, each making one control-register call, interleaved
\* at bus-transaction granularity, from every prior control value.
Caller1Calls == {"EnableAlarm1", "DisableSQW"}

Caller2Calls == {"EnableAlarm2", "EnableOSC"}

InitRace ==
    \E c \in Byte :
        StartState([DeviceReset EXCEPT ![DS3231_REG_CONTROL] = c], ExampleRec, 0)

NextRace ==
    \/ \E fn \in Caller1Calls : run.c[1].pc = "idle" /\ RmwSend(1, fn)
    \/ \E fn \in Caller2Calls : run.c[2].pc = "idle" /\ RmwSend(2, fn)
    \/ \E p \in {1, 2} : RmwRead(p)
    \/ \E p \in {1, 2} : RmwWrite(p)

SpecRace == InitRace /\ [][NextRace]_vars

\* The controller primitives on the TWI registers: up to MaxCalls calls with
\* these arguments, receive lengths 1..MaxLen.
TwiAddrs == {DS3231_ADDR, 50}

TwiBuffers == {<<>>, <<1>>, <<1, 2>>}

TwiBytes == {90, 165}

InitTwiC == StartDriver(DeviceReset, ExampleRec, 0) /\ twi = HAL_I2C_InitController(TwiReset, 400000)

NextTwiC ==
    \/ \E addr \in TwiAddrs, d \in {170} :
           TwiCall("ControllerSend", [addr |-> addr, buf |-> <<d>>, len |-> 1],
                   HAL_I2C_ControllerSend_steps(addr, d))
    \/ \E addr \in TwiAddrs, buf \in TwiBuffers :
           TwiCall("ControllerTransmit", [addr |-> addr, buf |-> buf, len |-> Len(buf)],
                   HAL_I2C_ControllerTransmit_steps(addr, buf))
    \/ \E addr \in TwiAddrs :
           TwiCall("ControllerRead", [addr |-> addr, buf |-> <<>>, len |-> 1],
                   HAL_I2C_ControllerRead_steps(addr))
    \/ \E addr \in TwiAddrs, len \in 1..MaxLen :
           TwiCall("ControllerReceive", [addr |-> addr, buf |-> <<>>, len |-> len],
                   HAL_I2C_ControllerReceive_steps(addr, len))
    \/ TwiStep
    \/ HwStart
    \/ HwAddress
    \/ HwTransmit
    \/ \E b \in TwiBytes : HwReceive(b)
    \/ HwStop

SpecTwiC == InitTwiC /\ [][NextTwiC]_vars

\* The controller primitives with a device that may leave any address or
\* data byte unacknowledged.
NextAck ==
    \/ TwiCall("ControllerSend", [addr |-> DS3231_ADDR, buf |-> <<170>>, len |-> 1],
               HAL_I2C_ControllerSend_steps(DS3231_ADDR, 170))
    \/ \E buf \in TwiBuffers :
           TwiCall("ControllerTransmit",
                   [addr |-> DS3231_ADDR, buf |-> buf, len |-> Len(buf)],
                   HAL_I2C_ControllerTransmit_steps(DS3231_ADDR, buf))
    \/ TwiCall("ControllerRead", [addr |-> DS3231_ADDR, buf |-> <<>>, len |-> 1],
               HAL_I2C_ControllerRead_steps(DS3231_ADDR))
    \/ \E len \in 1..MaxLen :
           TwiCall("ControllerReceive", [addr |-> DS3231_ADDR, buf |-> <<>>, len |-> len],
                   HAL_I2C_ControllerReceive_steps(DS3231_ADDR, len))
    \/ TwiStep
    \/ HwStart
    \/ HwAddress
    \/ HwAddressNack
    \/ HwTransmit
    \/ HwTransmitNack
    \/ \E b \in {90} : HwReceive(b)
    \/ HwStop

SpecAck == InitTwiC /\ [][NextAck]_vars

\* The controller primitives and a driver read-modify-write on the TWI
\* registers, with a device that may not answer to its address, the code
\* running on and the hardware completing every phase it has started.
NextLive ==
    \/ \E buf \in TwiBuffers :
           TwiCall("ControllerTransmit",
                   [addr |-> DS3231_ADDR, buf |-> buf, len |-> Len(buf)],
                   HAL_I2C_ControllerTransmit_steps(DS3231_ADDR, buf))
    \/ \E len \in 1..MaxLen :
           TwiCall("ControllerReceive", [addr |-> DS3231_ADDR, buf |-> <<>>, len |-> len],
                   HAL_I2C_ControllerReceive_steps(DS3231_ADDR, len))
    \/ EnableAlarm1Enter
    \/ EnableAlarm1Next
    \/ TwiStep
    \/ HwStart
    \/ HwAddress
    \/ HwAddressNack
    \/ HwTransmit
    \/ \E b \in {28} : HwReceive(b)
    \/ HwStop

SpecLive ==
    /\ InitTwiC
    /\ [][NextLive]_vars
    /\ WF_vars(TwiStep)
    /\ WF_vars(EnableAlarm1Next)
    /\ WF_vars(HwStart)
    /\ WF_vars(HwAddress \/ HwAddressNack)
    /\ WF_vars(HwTransmit)
    /\ WF_vars(\E b \in {28} : HwReceive(b))
    /\ WF_vars(HwStop)

\* The receive primitive of the role the TWI peripheral was initialised
\* in, with every len in 0..MaxLen.
InitRecv ==
    \E t \in {HAL_I2C_InitController(TwiReset, 400000),
               HAL_I2C_InitPeripheral(TwiReset, 50)} :
        StartDriver(DeviceReset, ExampleRec, 0) /\ twi = t

NextRecv ==
    \/ \E len \in 0..MaxLen :
           /\ twi.role = "controller"
           /\ TwiCall("ControllerReceive",
                      [addr |-> DS3231_ADDR, buf |-> <<>>, len |-> len],
                      HAL_I2C_ControllerReceive_steps(DS3231_ADDR, len))
    \/ \E len \in 0..MaxLen :
           /\ twi.role = "peripheral"
           /\ TwiCall("PeripheralReceive", [addr |-> 0, buf |-> <<>>, len |-> len],
                      HAL_I2C_PeripheralReceive_steps(len))
    \/ TwiStep
    \/ TwiFault
    \/ HwStart
    \/ HwAddress
    \/ \E b \in TwiBytes : HwReceive(b)
    \/ HwStop
    \/ \E dir \in {0, 1} : HwAddressed(dir)
    \/ HwPeripheralTransmit
    \/ \E b \in TwiBytes : HwPeripheralReceive(b)

SpecRecv == InitRecv /\ [][NextRecv]_vars

\* The peripheral primitives on the TWI registers, own address 0x32, with an
\* external controller that addresses the device in either direction.
InitTwiP == StartDriver(DeviceReset, ExampleRec, 0) /\ twi = HAL_I2C_InitPeripheral(TwiReset, 50)

NextTwiP ==
    \/ \E d \in {170} :
           TwiCall("PeripheralSend", [addr |-> 0, buf |-> <<d>>, len |-> 1],
                   HAL_I2C_PeripheralSend_steps(d))
    \/ \E buf \in TwiBuffers \ {<<>>} :
           TwiCall("PeripheralTransmit", [addr |-> 0, buf |-> buf, len |-> Len(buf)],
                   HAL_I2C_PeripheralTransmit_steps(buf))
    \/ TwiCall("PeripheralRead", [addr |-> 0, buf |-> <<>>, len |-> 1],
               HAL_I2C_PeripheralRead_steps)
    \/ \E len \in 1..MaxLen :
           TwiCall("PeripheralReceive", [addr |-> 0, buf |-> <<>>, len |-> len],
                   HAL_I2C_PeripheralReceive_steps(len))
    \/ TwiStep
    \/ \E dir \in {0, 1} : HwAddressed(dir)
    \/ HwPeripheralTransmit
    \/ \E b \in TwiBytes : HwPeripheralReceive(b)

SpecTwiP == InitTwiP /\ [][NextTwiP]_vars

\* DS3231_Init, once and again, from every control byte and from a TWI
\* peripheral left in reset or configured as peripheral.
InitBoot ==
    \E c \in Byte, t \in {TwiReset, HAL_I2C_InitPeripheral(TwiReset, 50)} :
        /\ StartDriver([DeviceReset EXCEPT ![DS3231_REG_CONTROL] = c], ExampleRec, 0)
        /\ twi = t

NextBoot == InitDevice /\ UNCHANGED <<ses, run>>

SpecBoot == InitBoot /\ [][NextBoot]_vars

\* HAL_I2C_SetFrequency for the rates 10 kHz, 20 kHz, ... MaxFreqSteps of them.
MaxFreqSteps == 200
Freqs == {k * 10000 : k \in 1..MaxFreqSteps}

InitFreq ==
    \E t \in {TwiReset, HAL_I2C_InitPeripheral(TwiReset, 50)} :
        StartDriver(DeviceReset, ExampleRec, 0) /\ twi = t

NextFreq == (\E f \in Freqs : SetFrequency(f)) /\ UNCHANGED <<ses, run>>

SpecFreq == InitFreq /\ [][NextFreq]_vars

\* Init calls, HAL_I2C_EndComm and primitives of both roles in any order,
\* starting from the TWI peripheral in reset or initialised in either role.
InitRole ==
    \E t \in {TwiReset, HAL_I2C_InitController(TwiReset, 400000),
               HAL_I2C_InitPeripheral(TwiReset, 50)} :
        StartDriver(DeviceReset, ExampleRec, 0) /\ twi = t

NextRole ==
    \/ InitController(400000)
    \/ InitPeripheral(50)
    \/ EndComm
    \/ TwiCall("ControllerSend", [addr |-> DS3231_ADDR, buf |-> <<170>>, len |-> 1],
               HAL_I2C_ControllerSend_steps(DS3231_ADDR, 170))
    \/ \E len \in 1..MaxLen :
           TwiCall("ControllerReceive", [addr |-> DS3231_ADDR, buf |-> <<>>, len |-> len],
                   HAL_I2C_ControllerReceive_steps(DS3231_ADDR, len))
    \/ TwiCall("PeripheralSend", [addr |-> 0, buf |-> <<170>>, len |-> 1],
               HAL_I2C_PeripheralSend_steps(170))
    \/ \E len \in 1..MaxLen :
           TwiCall("PeripheralReceive", [addr |-> 0, buf |-> <<>>, len |-> len],
                   HAL_I2C_PeripheralReceive_steps(len))
    \/ TwiStep
    \/ HwStart
    \/ HwAddress
    \/ HwTransmit
    \/ \E b \in {90} : HwReceive(b)
    \/ HwStop
    \/ \E dir \in {0, 1} : HwAddressed(dir)
    \/ HwPeripheralTransmit
    \/ \E b \in {90} : HwPeripheralReceive(b)

SpecRole == InitRole /\ [][NextRole]_vars

\* Temperature: every register pair.
InitTemp ==
    \E msb \in Byte, lsb \in Byte :
        StartState([DeviceReset EXCEPT ![DS3231_REG_TEMP_MSB] = msb,
                                       ![DS3231_REG_TEMP_LSB] = lsb], ExampleRec, 0)

NextTemp == GetTemp /\ UNCHANGED <<ses, run, twi>>

SpecTemp == InitTemp /\ [][NextTemp]_vars

\* Codec: every byte value as operand.
InitCodec == \E v \in Byte : StartState(DeviceReset, ExampleRec, v)

NextCodec ==
    /\ Encode \/ Decode
    /\ UNCHANGED <<ses, run, twi>>

SpecCodec == InitCodec /\ [][NextCodec]_vars

---------------------------------------------------------------------------
(* Properties.                                                             *)

\* A valid Clock Datetime Record.
ValidRecord(t) ==
    /\ t.sec \in 0..59 /\ t.min \in 0..59 /\ t.hour \in 0..23
    /\ t.day \in 1..7 /\ t.date \in 1..31 /\ t.month \in 1..12
    /\ t.year \in 2000..2199

\* The bus events of one write of register pointer a.
PointerWrite(a) ==
    << <<"START", 0>>, <<"SLA", 208>>, <<"TX", a>>, <<"STOP", 0>> >>

\* The data bytes (kind TX) of the bus events e, in order.
RECURSIVE TxBytes(_)
TxBytes(e) ==
    IF e = <<>> THEN <<>>
    ELSE IF Head(e)[1] = "TX" THEN <<Head(e)[2]>> \o TxBytes(Tail(e))
    ELSE TxBytes(Tail(e))

\* C1: DS3231_SetTime(r) for a valid record r followed directly by
\* DS3231_GetTime returns a record equal to r in every field.
C1_RoundTrip ==
    (op = "GetTime" /\ prev = "SetTime" /\ ValidRecord(arg)) => got = arg

\* C2: the month byte DS3231_SetTime writes to register 0x05 is BCD(month),
\* with bit 7 set exactly when year >= 2100.
C2_MonthByte ==
    (op = "SetTime" /\ ValidRecord(arg)) =>
        /\ bus[9] = <<"TX", Bcd(arg.month) + (IF arg.year >= 2100 THEN 128 ELSE 0)>>
        /\ regs[DS3231_REG_MONTH] = bus[9][2]

\* C3: the year byte DS3231_SetTime writes to register 0x06 is
\* BCD(year mod 100), computed on the full 16-bit year.
C3_YearByte ==
    (op = "SetTime" /\ ValidRecord(arg)) =>
        /\ bus[10] = <<"TX", Bcd(arg.year % 100)>>
        /\ regs[DS3231_REG_YEAR] = bus[10][2]

\* C4: with a valid BCD year byte yy in register 0x06, DS3231_GetTime
\* returns year 2000 + yy when bit 7 of the month register is clear and
\* 2100 + yy when it is set, and it reads registers 0x00..0x06 in one read
\* transfer after one write of the pointer 0x00.
C4_GetTimeYear ==
    (op = "GetTime" /\ regs[DS3231_REG_YEAR] \in BcdBytes) =>
        /\ got.year = (IF regs[DS3231_REG_MONTH] >= 128 THEN 2100 ELSE 2000)
                        + (10 * (regs[DS3231_REG_YEAR] \div 16))
                        + (regs[DS3231_REG_YEAR] % 16)
        /\ Len(bus) = 14
        /\ SubSeq(bus, 1, 4) = PointerWrite(DS3231_REG_SECONDS)
        /\ bus[5] = <<"START", 0>>
        /\ bus[6] = <<"SLA", 209>>
        /\ \A i \in 0..6 : /\ bus[7 + i][1] \in {"RX_ACK", "RX_NACK"}
                           /\ bus[7 + i][2] = regs[i]
        /\ bus[14] = <<"STOP", 0>>

C4_Witness ==
    /\ op = "GetTime"
    /\ regs[DS3231_REG_MONTH] = 146
    /\ regs[DS3231_REG_YEAR] = 153
    /\ got.year = 2199

\* C5: for v in 0..99, TO_BCD(v) has both nibbles in 0..9, and
\* TO_BIN(TO_BCD(v)) = v, which lies in 0..99.
C5_Codec ==
    val \in 0..99 =>
        /\ op = "TO_BCD" => (ret \div 16 \in 0..9 /\ ret % 16 \in 0..9)
        /\ op = "TO_BIN" => (ret = val /\ ret \in 0..99)

C5_Witness == op = "TO_BIN" /\ val = 99 /\ ret = 99

\* C6: DS3231_GetTemp returns 0.25 times the two's-complement value of the
\* 10-bit count (msb << 2) | (lsb >> 6): counts 0..511 map to themselves,
\* counts 512..1023 to count - 1024 (ret is kept in hundredths of a degree,
\* 25 per count); the low six bits of lsb do not enter.
C6_Temp ==
    op = "GetTemp" =>
        LET count == (4 * regs[DS3231_REG_TEMP_MSB]) + (regs[DS3231_REG_TEMP_LSB] \div 64)
        IN  /\ ret = 25 * (IF count <= 511 THEN count ELSE count - 1024)
            /\ (regs[DS3231_REG_TEMP_MSB] = 25 /\ regs[DS3231_REG_TEMP_LSB] < 64)
                  => ret = 2500
            /\ (regs[DS3231_REG_TEMP_MSB] = 246 /\ regs[DS3231_REG_TEMP_LSB] < 64)
                  => ret = -1000

C6_Witness ==
    /\ op = "GetTemp"
    /\ regs[DS3231_REG_TEMP_MSB] = 246
    /\ regs[DS3231_REG_TEMP_LSB] = 63
    /\ ret = -1000

\* The bus events of DS3231_EnableAlarm1 / DS3231_EnableAlarm2 on a
\* control register holding c before and w after: pointer write, one-byte
\* read, write-back.
ControlRmw(c, w) ==
    PointerWrite(DS3231_REG_CONTROL)
    \o << <<"START", 0>>, <<"SLA", 209>>, <<"RX_NACK", c>>, <<"STOP", 0>> >>
    \o << <<"START", 0>>, <<"SLA", 208>>, <<"TX", DS3231_REG_CONTROL>>,
          <<"TX", w>>, <<"STOP", 0>> >>

\* The bus events of one write transfer of the bytes d to the device.
WriteTransfer(d) ==
    << <<"START", 0>>, <<"SLA", 208>> >>
    \o [i \in 1..Len(d) |-> <<"TX", d[i]>>]
    \o << <<"STOP", 0>> >>

C8_Alarm2Pattern ==
    (op = "SetAlarm2" /\ ValidRecord(arg)) =>
        LET mi == regs[DS3231_REG_ALM2_MIN]
            h == regs[DS3231_REG_ALM2_HOUR]
            d == regs[DS3231_REG_ALM2_DAY]
        IN  /\ SubSeq(bus, 14, Len(bus)) =
                  WriteTransfer(<<DS3231_REG_ALM2_MIN, mi, h, d>>)
            /\ <<Bit(mi, 7), Bit(h, 7), Bit(d, 7)>> =
                  CASE mode = DS3231_ALM2_PER_MIN -> <<1, 1, 1>>
                    [] mode = DS3231_ALM2_MTC_MIN -> <<0, 1, 1>>
                    [] mode = DS3231_ALM2_MTC_HR_MIN -> <<0, 0, 1>>
                    [] mode = DS3231_ALM2_MTC_DT_HR_MIN -> <<0, 0, 0>>
                    [] mode = DS3231_ALM2_MTC_DY_DT_HR_MIN -> <<0, 0, 0>>
            /\ mode = DS3231_ALM2_MTC_DT_HR_MIN => Bit(d, 6) = 0
            /\ mode = DS3231_ALM2_MTC_DY_DT_HR_MIN => Bit(d, 6) = 1

C8_Witness ==
    /\ op = "SetAlarm2"
    /\ mode = DS3231_ALM2_MTC_DY_DT_HR_MIN
    /\ arg.day = 7
    /\ regs[DS3231_REG_ALM2_DAY] = 71
    /\ regs[DS3231_REG_ALM2_HOUR] < 128

\* C9: in the date-matching modes the day/date alarm register (0x0A resp.
\* 0x0D) is written with the BCD of the descriptor's date (day of month),
\* whatever its day of week; in the day-matching modes with the BCD of its
\* day (day of week) plus bit 6.
C9_DayDateField ==
    /\ (op = "SetAlarm1" /\ ValidRecord(arg)) =>
          /\ mode = DS3231_ALM1_MTC_DT_HR_MIN_SEC =>
                regs[DS3231_REG_ALM1_DAY] = Bcd(arg.date)
          /\ mode = DS3231_ALM1_MTC_DY_DT_HR_MIN_SEC =>
                regs[DS3231_REG_ALM1_DAY] = Bcd(arg.day) + 64
    /\ (op = "SetAlarm2" /\ ValidRecord(arg)) =>
          /\ mode = DS3231_ALM2_MTC_DT_HR_MIN =>
                regs[DS3231_REG_ALM2_DAY] = Bcd(arg.date)
          /\ mode = DS3231_ALM2_MTC_DY_DT_HR_MIN =>
                regs[DS3231_REG_ALM2_DAY] = Bcd(arg.day) + 64

\* C10: after DS3231_EnableAlarm1 on a control register holding c, the
\* control register holds c with bit 0 set and every other bit as in c.
C10_EnableAlarm1Frame ==
    op = "EnableAlarm1" =>
        /\ regs[DS3231_REG_CONTROL] = pre.ctrl + (IF pre.ctrl % 2 = 0 THEN 1 ELSE 0)
        /\ \A i \in 1..7 : Bit(regs[DS3231_REG_CONTROL], i) = Bit(pre.ctrl, i)
        /\ bus = ControlRmw(pre.ctrl, regs[DS3231_REG_CONTROL])

C10_Witness ==
    /\ op = "EnableAlarm1"
    /\ pre.ctrl = 254
    /\ regs[DS3231_REG_CONTROL] = 255

\* C11: after DS3231_DisableAlarm1 on a control register holding c, the
\* control register holds c with bit 0 cleared and every other bit as in c.
C11_DisableAlarm1Frame ==
    op = "DisableAlarm1" =>
        /\ Bit(regs[DS3231_REG_CONTROL], 0) = 0
        /\ \A i \in 1..7 : Bit(regs[DS3231_REG_CONTROL], i) = Bit(pre.ctrl, i)

\* C12: EnableAlarm2, DisableAlarm2, EnableSQW, DisableSQW and EnableOSC
\* each leave the control register with their one named bit set resp.
\* cleared (bit 1 set, bit 1 cleared, bit 2 set, bit 2 cleared, bit 7
\* cleared) and the other seven bits as they were; after any sequence of
\* these calls the register differs from its initial value only in bits
\* named by the calls made.
C12_Table ==
    [EnableAlarm2 |-> <<1, 1>>, DisableAlarm2 |-> <<1, 0>>,
     EnableSQW |-> <<2, 1>>, DisableSQW |-> <<2, 0>>, EnableOSC |-> <<7, 0>>]

C12_SingleBitFrames ==
    /\ op \in SingleBitCalls =>
          \A i \in 0..7 :
              Bit(regs[DS3231_REG_CONTROL], i) =
                  IF i = C12_Table[op][1] THEN C12_Table[op][2] ELSE Bit(pre.ctrl, i)
    /\ ses.pure =>
          \A i \in 0..7 :
              Bit(ses.named, i) = 0 => Bit(regs[DS3231_REG_CONTROL], i) = Bit(ses.c0, i)

C12_Witness ==
    /\ ses.pure /\ ses.n = 2
    /\ ses.c0 = 132
    /\ prev = "EnableAlarm2" /\ op = "EnableOSC"
    /\ regs[DS3231_REG_CONTROL] = 6

\* C13: after DS3231_SetSQWFreq(f), f one of 0x00, 0x08, 0x10, 0x18, on a
\* control register holding c, the register holds c with bits 3 and 4
\* replaced by those of f: (c & 0xE7) | f.
C13_SetSQWFreqFrame ==
    op = "SetSQWFreq" =>
        \A i \in 0..7 :
            Bit(regs[DS3231_REG_CONTROL], i) =
                IF i \in {3, 4} THEN Bit(mode, i) ELSE Bit(pre.ctrl, i)

C13_Witness ==
    /\ op = "SetSQWFreq"
    /\ mode = DS3231_SQW_1KHZ
    /\ pre.ctrl = 255
    /\ regs[DS3231_REG_CONTROL] = 239

\* C14: no driver operation clears an alarm-fired flag (status bits 0 and
\* 1): a flag the device has raised, also one raised between the status
\* read and the write-back of DS3231_Enable32khz or DS3231_Disable32khz,
\* stays set.
C14_FlagsKept ==
    \A i \in {0, 1} : Bit(run.raised, i) = 1 => Bit(regs[DS3231_REG_STATUS], i) = 1

\* The bus events since the primitive called last began, and whether that
\* primitive has returned.
TwiSeg == SubSeq(twi.log, twi.mark + 1, Len(twi.log))

TwiReturned == twi.ip = 0 /\ twi.n >= 1

TwiReadCall == twi.fn \in {"ControllerRead", "ControllerReceive"}

TwiKindsAfter ==
    [START |-> {"STOP"}, SLA |-> {"START"}, TX |-> {"SLA", "TX"},
     RX_ACK |-> {"SLA", "RX_ACK", "RX_NACK"}, RX_NACK |-> {"SLA", "RX_ACK", "RX_NACK"},
     STOP |-> {"SLA", "TX", "RX_ACK", "RX_NACK"}]

\* C15: every controller primitive (Send, Transmit, Read, Receive with
\* len >= 1) puts on the bus exactly START, one address byte, the data
\* bytes, STOP; the address byte is addr << 1 for a write and
\* (addr << 1) | 1 for a read; a write sends data[0..len-1] in order; and
\* the bus trace of any sequence of calls is a concatenation of such
\* frames: no START inside a frame, no byte outside one.
C15_Frames ==
    /\ TwiReturned =>
          /\ Len(TwiSeg) = twi.a.len + 3
          /\ TwiSeg[1] = <<"START", 0>>
          /\ TwiSeg[2] = <<"SLA", (twi.a.addr * 2) + (IF TwiReadCall THEN 1 ELSE 0)>>
          /\ TwiSeg[Len(TwiSeg)] = <<"STOP", 0>>
          /\ \A i \in 1..twi.a.len :
                IF TwiReadCall THEN TwiSeg[2 + i][1] \in {"RX_ACK", "RX_NACK"}
                ELSE TwiSeg[2 + i] = <<"TX", twi.a.buf[i]>>
    /\ \A i \in 1..Len(twi.log) :
          IF i = 1 THEN twi.log[i][1] = "START"
          ELSE twi.log[i - 1][1] \in TwiKindsAfter[twi.log[i][1]]
    /\ (twi.ip = 0 /\ twi.log # <<>>) => twi.log[Len(twi.log)][1] = "STOP"

C15_Witness ==
    /\ TwiReturned
    /\ twi.log = <<<<"START", 0>>, <<"SLA", 208>>, <<"TX", 1>>, <<"TX", 2>>,
                   <<"STOP", 0>>, <<"START", 0>>, <<"SLA", 101>>, <<"RX_NACK", 90>>,
                   <<"STOP", 0>>>>

\* C16: a controller read has TWEA set for each byte it receives except
\* the last: HAL_I2C_ControllerRead non-acknowledges its single byte,
\* HAL_I2C_ControllerReceive(len >= 1) acknowledges bytes 0..len-2 and
\* non-acknowledges byte len-1; the i-th byte received is stored in buf[i],
\* and STOP is issued only after all len bytes are stored.
C16_ReadAcks ==
    TwiReadCall =>
        /\ \A i \in 1..(Len(TwiSeg) - 2) :
              TwiSeg[2 + i][1] \in {"RX_ACK", "RX_NACK"} =>
                  /\ TwiSeg[2 + i][1] = IF i < twi.a.len THEN "RX_ACK" ELSE "RX_NACK"
                  /\ i <= Len(twi.rbuf) => twi.rbuf[i] = TwiSeg[2 + i][2]
        /\ Len(twi.rbuf) <= twi.a.len
        /\ ("TWSTO" \in twi.cr \/ TwiReturned) => Len(twi.rbuf) = twi.a.len
        /\ TwiReturned => \A i \in 1..twi.a.len : twi.rbuf[i] = TwiSeg[2 + i][2]

C16_Witness ==
    /\ TwiReturned
    /\ twi.fn = "ControllerReceive" /\ twi.a.len = 2
    /\ twi.rbuf = <<90, 165>>
    /\ TwiSeg = <<<<"START", 0>>, <<"SLA", 209>>, <<"RX_ACK", 90>>, <<"RX_NACK", 165>>,
                  <<"STOP", 0>>>>

\* The bytes that arrived at this device since the call began.
TwiArrived == SelectSeq(TwiSeg, LAMBDA e : e[1] \in {"PRX_ACK", "PRX_NACK"})

\* C17: the peripheral reads acknowledge every byte but the last:
\* HAL_I2C_PeripheralRead non-acknowledges its single byte,
\* HAL_I2C_PeripheralReceive(buf, len >= 1) acknowledges bytes 0..len-2 and
\* non-acknowledges byte len-1.
C17_PeripheralAcks ==
    twi.fn \in {"PeripheralRead", "PeripheralReceive"} =>
        \A i \in 1..Len(TwiArrived) :
            TwiArrived[i][1] = IF i < twi.a.len THEN "PRX_ACK" ELSE "PRX_NACK"

\* C18: HAL_I2C_PeripheralSend and HAL_I2C_PeripheralTransmit load a data
\* byte into TWDR only if, since the call began, an external controller
\* has addressed this device with its own address and read direction.
C18_LoadOnlyAfterSlaR ==
    (twi.fn \in {"PeripheralSend", "PeripheralTransmit"} /\ twi.loaded) =>
        twi.addressed = "R"

\* C19: a controller primitive goes on to its next bus action, and
\* returns, only after the hardware has signalled the completion of the
\* one before (TWINT set after START, the address byte and each data byte,
\* TWSTO cleared after STOP); while a completion is outstanding the call
\* neither returns nor issues a further bus action.
C19_WaitsForCompletion ==
    /\ twi.ip >= 1 => (twi.sig >= twi.ip - 1 /\ Len(TwiSeg) <= twi.ip)
    /\ TwiReturned => (twi.sig = Len(twi.prog) /\ Len(TwiSeg) = Len(twi.prog))
    /\ (twi.ip >= 1 /\ twi.sig < twi.ip) => ~WaitOver(twi)

C19_Witness ==
    /\ TwiReturned
    /\ twi.fn = "ControllerTransmit" /\ twi.a.len = 2
    /\ twi.sig = 5
    /\ twi.cr = {"TWEN"}

\* C20: two logical callers that interleave their read-modify-write calls
\* on the control register at bus-transaction granularity can lose an
\* update: a final state is reachable in which both calls have completed
\* and the bit changed by one of them is not as that call left it
\* (C20_Witness).  The loss comes from the interleaving alone: when no
\* transaction of one caller falls inside the other's call, both changes
\* are present at the end.
C20_Effect ==
    [EnableAlarm1 |-> <<0, 1>>, DisableSQW |-> <<2, 0>>,
     EnableAlarm2 |-> <<1, 1>>, EnableOSC |-> <<7, 0>>]

C20_BothDone == \A p \in {1, 2} : run.c[p].pc = "done"

C20_LostOnlyByInterleaving ==
    (C20_BothDone /\ ~run.mixed) =>
        \A p \in {1, 2} :
            Bit(regs[DS3231_REG_CONTROL], C20_Effect[run.c[p].fn][1]) =
                C20_Effect[run.c[p].fn][2]

C20_Witness ==
    /\ C20_BothDone
    /\ run.c[1].fn = "EnableAlarm1" /\ run.c[2].fn = "EnableAlarm2"
    /\ ses.c0 = 0
    /\ regs[DS3231_REG_CONTROL] = DS3231_CTRL_A2IE

\* C21: DS3231_SetAlarm1 (resp. DS3231_SetAlarm2) first completes the
\* read-modify-write of the control register that sets A1IE (resp. A2IE)
\* and only then writes its alarm block in one write transfer; when it
\* returns the enable bit is set, every other control bit is as before, and
\* no register outside the control register and the alarm block
\* (0x07..0x0A resp. 0x0B..0x0D) has changed.
C21_Block(name) ==
    IF name = "SetAlarm1" THEN DS3231_REG_ALM1_SEC..DS3231_REG_ALM1_DAY
    ELSE DS3231_REG_ALM2_MIN..DS3231_REG_ALM2_DAY

C21_Step ==
    op' \in {"SetAlarm1", "SetAlarm2"} =>
        LET blk == C21_Block(op')
            first == IF op' = "SetAlarm1" THEN DS3231_REG_ALM1_SEC
                     ELSE DS3231_REG_ALM2_MIN
            ie == IF op' = "SetAlarm1" THEN 0 ELSE 1
            n == IF op' = "SetAlarm1" THEN 4 ELSE 3
        IN  /\ bus' = ControlRmw(regs[DS3231_REG_CONTROL], regs'[DS3231_REG_CONTROL])
                        \o WriteTransfer(<<first>> \o [i \in 1..n |-> regs'[first + i - 1]])
            /\ \A i \in 0..7 :
                  Bit(regs'[DS3231_REG_CONTROL], i) =
                      IF i = ie THEN 1 ELSE Bit(regs[DS3231_REG_CONTROL], i)
            /\ \A a \in RegAddrs \ (blk \cup {DS3231_REG_CONTROL}) : regs'[a] = regs[a]

C21_AlarmOrder == [][C21_Step]_vars

C21_Witness ==
    /\ op = "SetAlarm2" /\ prev = "SetAlarm1"
    /\ regs[DS3231_REG_CONTROL] = 31
    /\ regs[DS3231_REG_ALM1_SEC] = 89
    /\ regs[DS3231_REG_ALM2_MIN] = 89
    /\ Len(bus) = 20

\* C22: DS3231_Init configures the bus as controller at 400 kHz (prescaler
\* 1, TWBR = 12, TWEN set) before any bus transaction, then performs one
\* read-modify-write of the control register that clears EOSC (bit 7) and
\* leaves the other seven bits as they were; a second DS3231_Init leaves
\* the device registers unchanged.
C22_Init ==
    op = "Init" =>
        /\ twi.sr = 0 /\ twi.br = 12
        /\ "TWEN" \in twi.cr /\ "TWEA" \notin twi.cr
        /\ bus = <<<<"INIT", 12>>>> \o ControlRmw(pre.ctrl, regs[DS3231_REG_CONTROL])
        /\ \A i \in 0..7 :
              Bit(regs[DS3231_REG_CONTROL], i) = IF i = 7 THEN 0 ELSE Bit(pre.ctrl, i)
        /\ \A a \in RegAddrs \ {DS3231_REG_CONTROL} : regs[a] = DeviceReset[a]
        /\ prev = "Init" => regs[DS3231_REG_CONTROL] = pre.ctrl

C22_Witness ==
    /\ op = "Init" /\ prev = "Init"
    /\ ses.c0 = 255
    /\ pre.ctrl = 127 /\ regs[DS3231_REG_CONTROL] = 127
    /\ twi.br = 12 /\ twi.ar = 100

\* C23: for every requested rate f (10 kHz, 100 kHz, 400 kHz and rates
\* above 1 MHz among them) HAL_I2C_SetFrequency(f) leaves the prescaler at
\* 1 (TWSR = 0) and TWBR holding (16000000 div f - 16) div 2.
C23_DatasheetTWBR ==
    op = "SetFrequency" =>
        /\ twi.sr = 0
        /\ twi.br = ((16000000 \div val) - 16) \div 2

\* The registers of the TWI peripheral.
TwiRegs(t) == <<t.cr, t.dr, t.ar, t.br, t.sr>>

\* C24: HAL_I2C_EndComm is idempotent: from any bus state, calling it once
\* more changes nothing, and after it TWEN is clear whatever the role.
C24_EndCommIdempotent ==
    twi.fn = "EndComm" =>
        /\ "TWEN" \notin twi.cr
        /\ TwiRegs(HAL_I2C_EndComm(twi)) = TwiRegs(twi)
        /\ HAL_I2C_EndComm(twi).role = twi.role

C24_Witness ==
    /\ twi.fn = "EndComm" /\ twi.role = "peripheral"
    /\ twi.cr = {"TWEA"} /\ twi.n = 2 /\ Len(twi.log) = 2

\* The data-transfer primitives.
TwiPrimitives ==
    {"ControllerSend", "ControllerTransmit", "ControllerRead", "ControllerReceive",
     "PeripheralSend", "PeripheralTransmit", "PeripheralRead", "PeripheralReceive"}

\* C30: the bus role is changed only by the init calls: with the role
\* read as Peripheral exactly when TWEA is set in TWCR, the role observed
\* once a data-transfer primitive has returned is the one the most recent
\* init call established.
C30_RoleKept ==
    (twi.ip = 0 /\ twi.fn \in TwiPrimitives /\ twi.role # "none") =>
        ("TWEA" \in twi.cr <=> twi.role = "peripheral")

\* C27: DS3231_SetTime treats the caller's record as read-only: for every
\* valid record, year >= 2100 included, all seven fields are the same
\* after the call as before it.
C27_RecordReadOnly ==
    (op = "SetTime" /\ ValidRecord(arg)) => rec = arg

\* C28: for a month register holding BCD(month) | 0x80 (a valid time in the
\* second century) DS3231_GetTime returns a month in 1..12, the BCD decode
\* of the month byte with the century bit masked.
C28_MonthInRange ==
    (/\ op = "GetTime"
     /\ \E m \in 1..12 : regs[DS3231_REG_MONTH] = Bcd(m) + 128) =>
        /\ got.month \in 1..12
        /\ got.month = TO_BIN(BitAnd(regs[DS3231_REG_MONTH], 127))

\* The steps of the controller primitive fn called with the arguments a.
TwiSteps(fn, a) ==
    CASE fn = "ControllerSend" -> HAL_I2C_ControllerSend_steps(a.addr, a.buf[1])
      [] fn = "ControllerTransmit" -> HAL_I2C_ControllerTransmit_steps(a.addr, a.buf)
      [] fn = "ControllerRead" -> HAL_I2C_ControllerRead_steps(a.addr)
      [] fn = "ControllerReceive" -> HAL_I2C_ControllerReceive_steps(a.addr, a.len)

\* The missing acknowledges since the call began.
TwiNacks == SelectSeq(TwiSeg, LAMBDA e : e[1] \in {"SLA_NACK", "TX_NACK"})

\* The bytes the call has put on the bus, acknowledged or not.
TwiSent == [i \in 1..Len(TwiSeg) |->
               IF TwiSeg[i][1] = "SLA_NACK" THEN <<"SLA", TwiSeg[i][2]>>
               ELSE IF TwiSeg[i][1] = "TX_NACK" THEN <<"TX", TwiSeg[i][2]>>
               ELSE IF TwiSeg[i][1] \in {"RX_ACK", "RX_NACK"} THEN <<TwiSeg[i][1], 0>>
               ELSE TwiSeg[i]]

\* The frame of the call when every byte is acknowledged.
TwiFrame(fn, a) ==
    <<<<"START", 0>>>>
    \o (IF fn \in {"ControllerSend", "ControllerTransmit"}
        THEN <<<<"SLA", U8(a.addr * 2)>>>> \o [i \in 1..Len(a.buf) |-> <<"TX", a.buf[i]>>]
        ELSE <<<<"SLA", U8(a.addr * 2 + 1)>>>>
             \o [i \in 1..a.len |-> <<IF i < a.len THEN "RX_ACK" ELSE "RX_NACK", 0>>])
    \o <<<<"STOP", 0>>>>

\* C25: no controller primitive reacts to a missing acknowledge: whatever
\* the device acknowledges, a call makes the register writes its arguments
\* determine, puts the same address byte, data bytes and STOP on the bus,
\* stores len bytes on a read, and returns.
C25_AckIgnored ==
    (twi.fn \in {"ControllerSend", "ControllerTransmit", "ControllerRead",
                 "ControllerReceive"}) =>
        /\ \A i \in 1..Len(twi.wr) :
              twi.wr[i] = <<TwiSteps(twi.fn, twi.a)[i].ld, TwiSteps(twi.fn, twi.a)[i].cr>>
        /\ twi.ip = 0 =>
              /\ Len(twi.wr) = Len(TwiSteps(twi.fn, twi.a))
              /\ TwiSent = TwiFrame(twi.fn, twi.a)
              /\ TwiReadCall => Len(twi.rbuf) = twi.a.len

C25_Witness ==
    /\ twi.fn = "ControllerTransmit" /\ twi.ip = 0
    /\ twi.a.buf = <<1, 2>>
    /\ Len(TwiNacks) = 3
    /\ TwiSeg[Len(TwiSeg)] = <<"STOP", 0>>

\* The data bytes clocked in since the call began.
TwiClocked ==
    SelectSeq(TwiSeg, LAMBDA e : e[1] \in {"RX_ACK", "RX_NACK", "PRX_ACK", "PRX_NACK"})

\* C29: for every len >= 0, HAL_I2C_ControllerReceive and
\* HAL_I2C_PeripheralReceive clock in no more than len data bytes and
\* store only to buf[0..len-1], all of them by the time they return; with
\* len = 0 they receive no data byte and write no buffer index.
C29_ExactlyLen ==
    twi.fn \in {"ControllerReceive", "PeripheralReceive"} =>
        /\ Len(TwiClocked) <= twi.a.len
        /\ Len(twi.rbuf) <= twi.a.len
        /\ twi.ip = 0 => Len(twi.rbuf) = twi.a.len

\* A driver function is running on the bus.
DrvRunning == twi.drv # "none" /\ (twi.todo # <<>> \/ twi.ip >= 1)

\* C26: when the hardware signals the completion of every phase it has
\* started, every controller primitive returns, and so does the driver
\* function, which makes three primitive calls for its read-modify-write.
C26_Terminates ==
    /\ (twi.ip >= 1) ~> (twi.ip = 0)
    /\ DrvRunning ~> (twi.drv # "none" /\ ~DrvRunning /\ twi.k = 3)
    /\ [](twi.k <= 3)

C26_Witness ==
    /\ twi.drv = "EnableAlarm1" /\ ~DrvRunning
    /\ twi.k = 3 /\ twi.n = 2
    /\ twi.fn = "ControllerTransmit" /\ twi.a.buf = <<DS3231_REG_CONTROL, 29>>
    /\ Len(TwiNacks) = 1

====
